---------------------------- MODULE Spec2Model ----------------------------
(***************************************************************************)
(* A model of src/js/tag-i18n.js: the tag table, its two lookup indexes,   *)
(* the two loading strategies (synchronous require / asynchronous fetch)   *)
(* and the three query functions normalizeTag, translateTag, getAllTags.   *)
(*                                                                         *)
(* JavaScript strings are sequences of one-character TLA+ strings.  A      *)
(* JavaScript value that the code inspects with typeof is a record         *)
(* [type, chars]; an object entry of the table is a record                 *)
(* [kind, en, zh, aliases]; a JSON root value is a record [kind, props]    *)
(* whose props is the sequence of its own properties in Object.keys order. *)
(***************************************************************************)
EXTENDS Integers, Sequences, FiniteSets, TLC

(***************************************************************************)
(* Bounds of the model.                                                    *)
(***************************************************************************)
MaxEntries == 2

(***************************************************************************)
(* Strings                                                                 *)
(***************************************************************************)
Chars == {"a", "A", " "}

EmptyString == <<>>

\* all strings of length at most 2 over Chars, and a letter with a blank on both sides
TagStrings ==
  {EmptyString} \cup {<<c>> : c \in Chars} \cup {<<c, d>> : c \in Chars, d \in Chars}
    \cup {<<" ", "a", " ">>, <<" ", "A", " ">>}

\* String.prototype.toLowerCase on one character
lowerChar(c) == IF c = "A" THEN "a" ELSE c

toLowerCase(s) == [i \in 1..Len(s) |-> lowerChar(s[i])]

RECURSIVE trimStart(_)
trimStart(s) ==
  IF s # <<>> /\ Head(s) = " " THEN trimStart(Tail(s)) ELSE s

RECURSIVE trimEnd(_)
trimEnd(s) ==
  IF s # <<>> /\ s[Len(s)] = " " THEN trimEnd(SubSeq(s, 1, Len(s) - 1)) ELSE s

\* String.prototype.trim
trim(s) == trimEnd(trimStart(s))

foldTagKey(tag) == toLowerCase(trim(tag))

(***************************************************************************)
(* JavaScript values                                                       *)
(***************************************************************************)
Str(s) == [type |-> "string", chars |-> s]
Num == [type |-> "number", chars |-> <<>>]
Undefined == [type |-> "undefined", chars |-> <<>>]

\* ToBoolean of a value (numbers of the model are non-zero)
Truthy(v) ==
  \/ v.type = "string" /\ Len(v.chars) > 0
  \/ v.type = "number"

\* a || b
OrElse(a, b) == IF Truthy(a) THEN a ELSE b

NotArray == [isArray |-> FALSE, items |-> <<>>]
Array(items) == [isArray |-> TRUE, items |-> items]

ObjectEntry(en, zh, aliases) ==
  [kind |-> "object", en |-> en, zh |-> zh, aliases |-> aliases]

\* an entry that is no plain object (a number, a string, null, an array)
ScalarEntry == [kind |-> "number", en |-> Undefined, zh |-> Undefined, aliases |-> NotArray]
UndefinedEntry == [kind |-> "undefined", en |-> Undefined, zh |-> Undefined, aliases |-> NotArray]

NullValue == [kind |-> "null", props |-> <<>>]
ArrayValue == [kind |-> "array", props |-> <<>>]
NumberValue == [kind |-> "number", props |-> <<>>]
ObjectValue(props) == [kind |-> "object", props |-> props]

\* Object.keys(table)
ObjectKeys(table) == [i \in 1..Len(table.props) |-> table.props[i].key]

\* table[key]
GetProp(table, key) ==
  IF \E i \in 1..Len(table.props) : table.props[i].key = key
  THEN table.props[CHOOSE i \in 1..Len(table.props) : table.props[i].key = key].value
  ELSE UndefinedEntry

\* entry[field]: the entries of the model have no own property but en, zh and aliases
GetLabel(entry, field) ==
  IF field = "zh" THEN entry.zh
  ELSE IF field = "en" THEN entry.en
  ELSE Undefined

(***************************************************************************)
(* Map<string, string>                                                     *)
(***************************************************************************)
EmptyMap == [k \in {} |-> EmptyString]
MapHas(m, k) == k \in DOMAIN m
MapGet(m, k) == IF k \in DOMAIN m THEN Str(m[k]) ELSE Undefined
MapSet(m, k, v) == [x \in (DOMAIN m) \cup {k} |-> IF x = k THEN v ELSE m[x]]

NullMap == [isNull |-> TRUE, map |-> EmptyMap]
SomeMap(m) == [isNull |-> FALSE, map |-> m]

(***************************************************************************)
(* Module state.  A module state st is the record of the closure's four    *)
(* variables together with the environment the loader acts on: the host    *)
(* (env), the number of fetch requests in flight and issued, the module    *)
(* cache of require, and the loader effects of the call in progress.       *)
(***************************************************************************)
VARIABLES
  env,                          \* "commonjs", "browser" or "bare" (no module, no fetch)
  started,                      \* the module body has run to its last line
  tagTable,                     \* let tagTable
  aliasToCanonical,             \* let aliasToCanonical
  foldedCanonicalToCanonical,   \* let foldedCanonicalToCanonical
  browserLoadPromise,           \* let browserLoadPromise: "null" or "promise"
  inflight,                     \* fetch requests issued and not yet settled
  fetches,                      \* fetch requests issued so far
  requireCache,                 \* require's cache entry for ../i18n/tags.json
  argTag,                       \* the tag argument the caller passes
  argLang,                      \* the lang argument the caller passes
  call                          \* the last call of an exported function, with its result

vars ==
  <<env, started, tagTable, aliasToCanonical, foldedCanonicalToCanonical,
    browserLoadPromise, inflight, fetches, requireCache, argTag, argLang, call>>

Envs == {"commonjs", "browser", "bare"}

\* typeof module === 'object' && module && module.exports
hasModuleExports(st) == st.env = "commonjs"

\* typeof fetch === 'function'
hasFetch(st) == st.env = "browser"

isPlainObject(value) == value.kind = "object"

(***************************************************************************)
(* buildIndexes                                                            *)
(***************************************************************************)
\* a later alias replaces the mapping already registered for its folded form
registerAlias_lastWins(aliasMap, key, canonical) == MapSet(aliasMap, key, canonical)

\* if (!aliasMap.has(key)) aliasMap.set(key, canonical)
registerAlias(aliasMap, key, canonical) ==
  IF ~MapHas(aliasMap, key) THEN MapSet(aliasMap, key, canonical) ELSE aliasMap

\* the inner loop of buildIndexes over entry.aliases, from position i
RECURSIVE addAliases(_, _, _, _)
addAliases(aliasMap, aliases, canonical, i) ==
  IF i > Len(aliases) THEN aliasMap
  ELSE LET alias == aliases[i] IN
       IF alias.type # "string" THEN addAliases(aliasMap, aliases, canonical, i + 1)
       ELSE LET key == foldTagKey(alias.chars) IN
            IF Len(key) = 0 THEN addAliases(aliasMap, aliases, canonical, i + 1)
            ELSE addAliases(registerAlias(aliasMap, key, canonical), aliases, canonical, i + 1)

\* entry && Array.isArray(entry.aliases) ? entry.aliases : []
aliasesOf(entry) ==
  IF entry.kind = "object" /\ entry.aliases.isArray THEN entry.aliases.items ELSE <<>>

\* the outer loop of buildIndexes over Object.keys(table), from position i
RECURSIVE indexKeys(_, _, _, _)
indexKeys(table, i, aliasMap, canonicalMap) ==
  IF i > Len(table.props)
  THEN [aliasMap |-> aliasMap, canonicalMap |-> canonicalMap]
  ELSE LET canonical == table.props[i].key
           entry == table.props[i].value
       IN indexKeys(table, i + 1,
                    addAliases(aliasMap, aliasesOf(entry), canonical, 1),
                    MapSet(canonicalMap, foldTagKey(canonical), canonical))

buildIndexes(st, table) ==
  LET built == indexKeys(table, 1, EmptyMap, EmptyMap) IN
  [st EXCEPT !.aliasToCanonical = SomeMap(built.aliasMap),
             !.foldedCanonicalToCanonical = SomeMap(built.canonicalMap)]

(***************************************************************************)
(* setTagTable                                                             *)
(***************************************************************************)
\* the shape check forgets the zh field
entryShapeOk_zhUnchecked(entry) ==
  /\ entry.kind = "object"
  /\ entry.en.type = "string"

\* the per-entry test of the shape check's loop
entryShapeOk(entry) ==
  /\ isPlainObject(entry)
  /\ entry.en.type = "string"
  /\ entry.zh.type = "string"

setTagTable(st, table) ==
  IF ~isPlainObject(table) THEN st
  ELSE IF Len(ObjectKeys(table)) = 0 THEN st
  ELSE IF \E i \in 1..Len(table.props) : ~entryShapeOk(table.props[i].value) THEN st
  ELSE buildIndexes([st EXCEPT !.tagTable = table], table)

(***************************************************************************)
(* maybeLoadTagTable.  outcome is what the environment answers to the      *)
(* require of this call, should the call get that far: it throws (file     *)
(* missing, malformed JSON) or yields the parsed value.                    *)
(***************************************************************************)
Throws == [throws |-> TRUE, value |-> NullValue]
Yields(v) == [throws |-> FALSE, value |-> v]

CacheMiss == [hit |-> FALSE, value |-> NullValue]
CacheHit(v) == [hit |-> TRUE, value |-> v]

\* require('../i18n/tags.json'): a module that loaded once is served from the cache
require(st, outcome) ==
  IF st.requireCache.hit THEN [st |-> st, result |-> Yields(st.requireCache.value)]
  ELSE IF outcome.throws THEN [st |-> st, result |-> Throws]
  ELSE [st |-> [st EXCEPT !.requireCache = CacheHit(outcome.value)], result |-> outcome]

\* the Node / CommonJS branch
loadSync(st, outcome) ==
  LET r == require([st EXCEPT !.effects = Append(@, "require")], outcome) IN
  IF r.result.throws THEN r.st ELSE setTagTable(r.st, r.result.value)

\* the browser branch without the test of browserLoadPromise
loadAsync_noPromiseGuard(st) ==
  IF ~(st.env = "browser") THEN st
  ELSE [st EXCEPT !.browserLoadPromise = "promise",
                  !.inflight = @ + 1,
                  !.fetches = @ + 1,
                  !.effects = Append(@, "fetch")]

\* the browser branch that issues the fetch and does not keep its promise
loadAsync_promiseNotStored(st) ==
  IF st.browserLoadPromise # "null" THEN st
  ELSE IF ~(st.env = "browser") THEN st
  ELSE [st EXCEPT !.inflight = @ + 1,
                  !.fetches = @ + 1,
                  !.effects = Append(@, "fetch")]

\* the browser branch
loadAsync(st) ==
  IF st.browserLoadPromise # "null" THEN st
  ELSE IF ~hasFetch(st) THEN st
  ELSE [st EXCEPT !.browserLoadPromise = "promise",
                  !.inflight = @ + 1,
                  !.fetches = @ + 1,
                  !.effects = Append(@, "fetch")]

maybeLoadTagTable(st, outcome) ==
  IF st.tagTable.kind # "null" THEN st
  ELSE IF hasModuleExports(st) THEN loadSync(st, outcome)
  ELSE loadAsync(st)

\* a promise chain that clears browserLoadPromise when the load fails, so that a
\* later call fetches again
fetchSettled_clearsPromiseOnFailure(st, response) ==
  LET s1 == [st EXCEPT !.inflight = @ - 1]
      s2 == IF response.rejected \/ ~response.ok \/ response.jsonThrows
               \/ response.data.kind = "null"
            THEN s1
            ELSE setTagTable(s1, response.data)
  IN IF s2.tagTable.kind = "null" THEN [s2 EXCEPT !.browserLoadPromise = "null"] ELSE s2

\* the .then/.then/.catch chain of the fetch, run when the request settles
\* response: [rejected, ok, jsonThrows, data]
fetchSettled(st, response) ==
  LET s1 == [st EXCEPT !.inflight = @ - 1] IN
  IF response.rejected THEN s1
  ELSE IF ~response.ok THEN s1
  ELSE IF response.jsonThrows THEN s1
  ELSE IF response.data.kind = "null" THEN s1
  ELSE setTagTable(s1, response.data)

(***************************************************************************)
(* The query functions.  Each returns the module state it leaves and its   *)
(* return value.                                                           *)
(***************************************************************************)
\* the lookup of normalizeTag once the indexes exist
resolve(st, tag) ==
  LET folded == foldTagKey(tag) IN
  IF Len(folded) = 0 THEN EmptyString
  ELSE OrElse(MapGet(st.aliasToCanonical.map, folded),
              OrElse(MapGet(st.foldedCanonicalToCanonical.map, folded), Str(tag))).chars

normalizeTag(st, tag, outcome) ==
  IF tag.type # "string" \/ Len(tag.chars) = 0 THEN [st |-> st, ret |-> EmptyString]
  ELSE LET s1 == maybeLoadTagTable(st, outcome) IN
       IF s1.aliasToCanonical.isNull \/ s1.foldedCanonicalToCanonical.isNull
       THEN [st |-> s1, ret |-> tag.chars]
       ELSE [st |-> s1, ret |-> resolve(s1, tag.chars)]

\* the test turned around: lang === 'en' ? 'en' : 'zh'
normalizedLang_defaultsToZh(lang) == IF lang = "en" THEN "en" ELSE "zh"

\* lang === 'zh' ? 'zh' : 'en'
normalizedLang(lang) == IF lang = "zh" THEN "zh" ELSE "en"

\* the tail of translateTag once the table exists
translate(st, tag, lang, outcome) ==
  LET n == normalizeTag(st, tag, outcome)
      canonical == n.ret
      entry == IF Len(canonical) = 0 THEN UndefinedEntry
               ELSE GetProp(n.st.tagTable, canonical)
  IN IF entry.kind = "undefined" THEN [st |-> n.st, ret |-> tag.chars]
     ELSE LET translated == GetLabel(entry, normalizedLang(lang)) IN
          [st |-> n.st,
           ret |-> IF translated.type = "string" /\ Len(translated.chars) > 0
                   THEN translated.chars ELSE tag.chars]

\* translateTag that answers '' instead of the tag while no table is installed
translateTag_emptyWhileUnloaded(st, tag, lang, outcome) ==
  IF tag.type # "string" \/ Len(tag.chars) = 0 THEN [st |-> st, ret |-> EmptyString]
  ELSE LET s1 == maybeLoadTagTable(st, outcome) IN
       IF s1.tagTable.kind = "null" THEN [st |-> s1, ret |-> EmptyString]
       ELSE translate(s1, tag, lang, outcome)

translateTag(st, tag, lang, outcome) ==
  IF tag.type # "string" \/ Len(tag.chars) = 0 THEN [st |-> st, ret |-> EmptyString]
  ELSE LET s1 == maybeLoadTagTable(st, outcome) IN
       IF s1.tagTable.kind = "null" THEN [st |-> s1, ret |-> tag.chars]
       ELSE translate(s1, tag, lang, outcome)

\* getAllTags that reads entry[lang] with the lang argument as given
getAllTags_rawLang(st, lang, outcome) ==
  LET s1 == maybeLoadTagTable(st, outcome) IN
  IF s1.tagTable.kind = "null" THEN [st |-> s1, list |-> <<>>]
  ELSE [st |-> s1,
        list |-> [i \in 1..Len(s1.tagTable.props) |->
                   [key |-> s1.tagTable.props[i].key,
                    label |-> GetLabel(s1.tagTable.props[i].value, lang)]]]

getAllTags(st, lang, outcome) ==
  LET s1 == maybeLoadTagTable(st, outcome) IN
  IF s1.tagTable.kind = "null" THEN [st |-> s1, list |-> <<>>]
  ELSE [st |-> s1,
        list |-> [i \in 1..Len(s1.tagTable.props) |->
                   [key |-> s1.tagTable.props[i].key,
                    label |-> GetLabel(s1.tagTable.props[i].value, normalizedLang(lang))]]]

(***************************************************************************)
(* Inputs: the values tags.json may parse to, and the arguments of calls.  *)
(***************************************************************************)
Keys == {EmptyString, <<"a">>, <<"A">>}

enOf(k) == Str(<<"E">> \o k)
zhOf(k) == Str(<<"Z">> \o k)

AliasLists ==
  { NotArray,
    Array(<<Str(<<"A">>)>>),
    Array(<<Str(<<" ">>), Num, Str(<<"a", "A">>)>>) }

\* entries the shape check accepts
GoodEntries(k) ==
  {ObjectEntry(enOf(k), zhOf(k), al) : al \in AliasLists}
    \cup {ObjectEntry(enOf(k), Str(EmptyString), NotArray)}

\* a plain entry, and entries the shape check rejects
PlainOrBadEntries(k) ==
  { ObjectEntry(enOf(k), zhOf(k), NotArray),
    ScalarEntry,
    ObjectEntry(Num, zhOf(k), NotArray),
    ObjectEntry(enOf(k), Undefined, NotArray) }

EntryPool(good, k) == IF good THEN GoodEntries(k) ELSE PlainOrBadEntries(k)

\* the property lists of at most n properties with distinct keys from keys, the value
\* under key k drawn from EntryPool(good, k)
RECURSIVE PropLists(_, _, _)
PropLists(good, keys, n) ==
  IF n = 0 THEN {<<>>}
  ELSE {<<>>} \cup
       UNION { { <<[key |-> k, value |-> e]>> \o rest :
                   e \in EntryPool(good, k), rest \in PropLists(good, keys \ {k}, n - 1) } :
               k \in keys }

Candidates ==
  {ObjectValue(ps) : ps \in PropLists(TRUE, Keys, MaxEntries)}
    \cup {ObjectValue(ps) : ps \in PropLists(FALSE, Keys, MaxEntries)}
    \cup {NullValue, ArrayValue, NumberValue}

\* what a require that is not served from the cache may answer
RequireOutcomes(st) ==
  IF hasModuleExports(st) /\ st.tagTable.kind = "null" /\ ~st.requireCache.hit
  THEN {Throws} \cup {Yields(c) : c \in Candidates}
  ELSE {Throws}

Rejected == [rejected |-> TRUE, ok |-> FALSE, jsonThrows |-> FALSE, data |-> NullValue]
NotOk == [rejected |-> FALSE, ok |-> FALSE, jsonThrows |-> FALSE, data |-> NullValue]
BadJson == [rejected |-> FALSE, ok |-> TRUE, jsonThrows |-> TRUE, data |-> NullValue]
OkJson(c) == [rejected |-> FALSE, ok |-> TRUE, jsonThrows |-> FALSE, data |-> c]

Responses == {Rejected, NotOk, BadJson} \cup {OkJson(c) : c \in Candidates}

TagArgs == {Str(s) : s \in TagStrings} \cup {Num}

\* 'zh', 'en' (also the default of an omitted lang) and a lang that is neither
Langs == {"zh", "en", "fr"}

(***************************************************************************)
(* The state machine                                                       *)
(***************************************************************************)
\* the module state the variables hold, at the start of a call
Cur ==
  [env |-> env,
   tagTable |-> tagTable,
   aliasToCanonical |-> aliasToCanonical,
   foldedCanonicalToCanonical |-> foldedCanonicalToCanonical,
   browserLoadPromise |-> browserLoadPromise,
   inflight |-> inflight,
   fetches |-> fetches,
   requireCache |-> requireCache,
   effects |-> <<>>]

Install(st) ==
  /\ tagTable' = st.tagTable
  /\ aliasToCanonical' = st.aliasToCanonical
  /\ foldedCanonicalToCanonical' = st.foldedCanonicalToCanonical
  /\ browserLoadPromise' = st.browserLoadPromise
  /\ inflight' = st.inflight
  /\ fetches' = st.fetches
  /\ requireCache' = st.requireCache
  /\ UNCHANGED <<env, argTag, argLang>>

NoCall ==
  [fn |-> "none", ret |-> EmptyString, list |-> <<>>,
   loadedBefore |-> FALSE, promiseBefore |-> "null", inflightBefore |-> 0,
   effects |-> <<>>, loadedAfter |-> FALSE, inflightAfter |-> 0]

\* the record of a call with arguments argTag and argLang, made in module state Cur, that
\* left module state st
Called(fn, ret, list, st) ==
  [fn |-> fn, ret |-> ret, list |-> list,
   loadedBefore |-> tagTable.kind # "null",
   promiseBefore |-> browserLoadPromise,
   inflightBefore |-> inflight,
   effects |-> st.effects,
   loadedAfter |-> st.tagTable.kind # "null",
   inflightAfter |-> st.inflight]

Init ==
  /\ env \in Envs
  /\ started = FALSE
  /\ tagTable = NullValue
  /\ aliasToCanonical = NullMap
  /\ foldedCanonicalToCanonical = NullMap
  /\ browserLoadPromise = "null"
  /\ inflight = 0
  /\ fetches = 0
  /\ requireCache = CacheMiss
  /\ argTag \in TagArgs
  /\ argLang \in Langs
  /\ call = NoCall

\* the last statement of the module body: maybeLoadTagTable()
ModuleInit ==
  /\ ~started
  /\ \E outcome \in RequireOutcomes(Cur) :
       Install(maybeLoadTagTable(Cur, outcome))
  /\ started' = TRUE
  /\ UNCHANGED call

CallNormalizeTag ==
  /\ started
  /\ \E outcome \in RequireOutcomes(Cur) :
       LET r == normalizeTag(Cur, argTag, outcome) IN
       /\ Install(r.st)
       /\ call' = Called("normalizeTag", r.ret, <<>>, r.st)
  /\ UNCHANGED started

CallTranslateTag ==
  /\ started
  /\ \E outcome \in RequireOutcomes(Cur) :
       LET r == translateTag(Cur, argTag, argLang, outcome) IN
       /\ Install(r.st)
       /\ call' = Called("translateTag", r.ret, <<>>, r.st)
  /\ UNCHANGED started

CallGetAllTags ==
  /\ started
  /\ \E outcome \in RequireOutcomes(Cur) :
       LET r == getAllTags(Cur, argLang, outcome) IN
       /\ Install(r.st)
       /\ call' = Called("getAllTags", EmptyString, r.list, r.st)
  /\ UNCHANGED started

\* a fetch request settles and the promise chain runs
FetchSettles ==
  /\ inflight > 0
  /\ \E response \in Responses : Install(fetchSettled(Cur, response))
  /\ UNCHANGED <<started, call>>

Next ==
  \/ ModuleInit
  \/ CallNormalizeTag
  \/ CallTranslateTag
  \/ CallGetAllTags
  \/ FetchSettles

Spec == Init /\ [][Next]_vars

(***************************************************************************)
(* Vocabulary of the properties.  Folding is stated here from its          *)
(* description (drop the blanks at both ends, then lowercase), apart from  *)
(* foldTagKey, so that the properties do not rest on the operators they    *)
(* are about.                                                              *)
(***************************************************************************)
Loaded == tagTable.kind # "null"

IsBlank(s) == \A i \in 1..Len(s) : s[i] = " "

\* s without its leading and trailing blanks
Core(s) ==
  LET cuts == { <<i, j>> \in (1..(Len(s) + 1)) \X (0..Len(s)) :
                  /\ i <= j + 1
                  /\ IsBlank(SubSeq(s, 1, i - 1))
                  /\ IsBlank(SubSeq(s, j + 1, Len(s)))
                  /\ (i <= j => s[i] # " " /\ s[j] # " ") }
      cut == CHOOSE c \in cuts : \A d \in cuts : c[2] - c[1] >= d[2] - d[1]
  IN SubSeq(s, cut[1], cut[2])

\* the folded form of s
FoldOf(s) == [i \in 1..Len(Core(s)) |-> IF Core(s)[i] = "A" THEN "a" ELSE Core(s)[i]]

\* the canonical keys of the installed table, in table order
KeyAt(i) == tagTable.props[i].key
EntryAt(i) == tagTable.props[i].value
Positions == 1..Len(tagTable.props)
CanonicalKeys == {KeyAt(i) : i \in Positions}

\* entry i lists a string alias whose folded form is the non-empty string f
ListsAlias(i, f) ==
  /\ EntryAt(i).aliases.isArray
  /\ \E n \in 1..Len(EntryAt(i).aliases.items) :
       LET a == EntryAt(i).aliases.items[n] IN
       a.type = "string" /\ FoldOf(a.chars) = f /\ f # EmptyString

\* the key of the first entry, in table order, that lists an alias folding to f
FirstOwner(f) ==
  KeyAt(CHOOSE i \in Positions : ListsAlias(i, f) /\ \A j \in 1..(i - 1) : ~ListsAlias(j, f))

\* the key of the last entry, in table order, whose key folds to f
LastKeyFolding(f) ==
  KeyAt(CHOOSE i \in Positions :
          FoldOf(KeyAt(i)) = f /\ \A j \in (i + 1)..Len(tagTable.props) : FoldOf(KeyAt(j)) # f)

\* the last call was fn, made with a string tag, and ran its lookup on an installed table
LookedUp(fn) == call.fn = fn /\ call.loadedAfter /\ argTag.type = "string"

\* the label field a lang argument selects in the entry stored under key
FieldOf(key, l) ==
  LET e == EntryAt(CHOOSE i \in Positions : KeyAt(i) = key) IN
  IF l = "zh" THEN e.zh ELSE e.en

(***************************************************************************)
(* C1 (as stated): with a table loaded, normalizeTag of a canonical key k, *)
(* or of any case / leading-trailing-whitespace variant of k, returns k,   *)
(* for every table the loader accepts.                                     *)
(***************************************************************************)
C1_CanonicalKeysAreFixed ==
  LookedUp("normalizeTag") =>
    \A k \in CanonicalKeys : FoldOf(argTag.chars) = FoldOf(k) => call.ret = k

(***************************************************************************)
(* C2 (as stated): with a table loaded, normalizeTag of an alias a listed  *)
(* under canonical key k (a string with a non-empty folded form), or of a  *)
(* case / whitespace variant of a, returns k.                              *)
(***************************************************************************)
C2_AliasResolvesToItsKey ==
  LookedUp("normalizeTag") =>
    \A i \in Positions : ListsAlias(i, FoldOf(argTag.chars)) => call.ret = KeyAt(i)

(***************************************************************************)
(* C2 (amended): normalizeTag of such an alias, or of a variant of it,     *)
(* returns the key of the FIRST entry in table order that lists an alias   *)
(* with that folded form; if that key is the empty string the alias hit is *)
(* dropped and the result is the last canonical key with that folded form, *)
(* or else the input.                                                      *)
(***************************************************************************)
C2_FirstSeenAliasWins ==
  LookedUp("normalizeTag") =>
    LET f == FoldOf(argTag.chars) IN
    (\E i \in Positions : ListsAlias(i, f)) =>
      call.ret = IF FirstOwner(f) # EmptyString THEN FirstOwner(f)
                 ELSE IF \E k \in CanonicalKeys : FoldOf(k) = f THEN LastKeyFolding(f)
                 ELSE argTag.chars

\* an alias listed by two entries has been looked up and resolved to the earlier one
C2_Witness ==
  /\ LookedUp("normalizeTag")
  /\ \E i, j \in Positions :
       /\ i < j
       /\ ListsAlias(i, FoldOf(argTag.chars))
       /\ ListsAlias(j, FoldOf(argTag.chars))
       /\ argTag.chars # FoldOf(argTag.chars)
       /\ call.ret = KeyAt(i)

\* the folded form of s is no folded canonical key and no registered alias
Unmatched(s) ==
  /\ \A k \in CanonicalKeys : FoldOf(k) # FoldOf(s)
  /\ \A i \in Positions : ~ListsAlias(i, FoldOf(s))

(***************************************************************************)
(* C3 (as stated): with a table loaded, for a string s whose folded form   *)
(* matches no folded canonical key and no registered alias, normalizeTag   *)
(* and translateTag both return s itself, whitespace-only strings included.*)
(***************************************************************************)
C3_UnmatchedIsReturnedUnchanged ==
  (LookedUp("normalizeTag") \/ LookedUp("translateTag")) =>
    (Unmatched(argTag.chars) => call.ret = argTag.chars)

C6_AllTagsInTableOrder ==
  (call.fn = "getAllTags" /\ call.loadedAfter) =>
    /\ Len(call.list) = Len(tagTable.props)
    /\ \A i \in Positions :
         /\ call.list[i].key = KeyAt(i)
         /\ call.list[i].label = (IF argLang = "zh" THEN EntryAt(i).zh ELSE EntryAt(i).en)

\* getAllTags('zh') has listed a table of two entries
C6_Witness ==
  /\ call.fn = "getAllTags"
  /\ call.loadedAfter
  /\ argLang = "zh"
  /\ Len(call.list) = 2
  /\ call.list[1].label = EntryAt(1).zh
  /\ call.list[1].label # EntryAt(1).en

\* the last call's function, called again now, returns what that call returned
RepeatsLastCall ==
  (call.fn # "none" /\ call.loadedAfter) =>
    /\ call.fn = "normalizeTag" => normalizeTag(Cur, argTag, Throws).ret = call.ret
    /\ call.fn = "translateTag" => translateTag(Cur, argTag, argLang, Throws).ret = call.ret
    /\ call.fn = "getAllTags" => getAllTags(Cur, argLang, Throws).list = call.list

(***************************************************************************)
(* C7: once a table is installed, the table and both indexes never change  *)
(* (no later load attempt or fetch completion replaces them), and          *)
(* repeating the last query call in any later state returns what that call *)
(* returned.  As an action property: every step leaves an installed table  *)
(* and its indexes as they are, and starts in a state where repeating the  *)
(* last call returns what it returned.                                     *)
(***************************************************************************)
C7_InstalledTableIsImmutable ==
  [][ /\ Loaded => UNCHANGED <<tagTable, aliasToCanonical, foldedCanonicalToCanonical>>
      /\ RepeatsLastCall ]_vars

\* a query ran its load attempt on an installed table and returned a translation
C7_Witness ==
  /\ Loaded
  /\ call.fn = "translateTag"
  /\ call.loadedBefore
  /\ call.effects = <<>>
  /\ argTag.type = "string"
  /\ call.ret # argTag.chars

(***************************************************************************)
(* C8: at most one fetch request is outstanding at any time; a query call  *)
(* made while a fetch is pending issues no further request.                *)
(***************************************************************************)
C8_OneFetchInFlight ==
  /\ inflight <= 1
  /\ (call.fn # "none" /\ call.inflightBefore > 0) => call.effects = <<>>

\* a query was made while the fetch was pending, and the fetch is still pending
C8_Witness ==
  /\ inflight = 1
  /\ call.fn # "none"
  /\ call.inflightBefore = 1
  /\ call.effects = <<>>

\* the last call reached maybeLoadTagTable
WellFormedCall ==
  \/ call.fn = "getAllTags"
  \/ call.fn \in {"normalizeTag", "translateTag"}
       /\ argTag.type = "string" /\ argTag.chars # EmptyString

(***************************************************************************)
(* C9 (as stated): while the table is unloaded, each query call with       *)
(* well-formed input re-attempts the load: a new require in the            *)
(* synchronous environment, a new fetch in the fetch environment whenever  *)
(* no fetch is outstanding.                                                *)
(***************************************************************************)
C9_EveryCallRetriesTheLoad ==
  (WellFormedCall /\ ~call.loadedBefore) =>
    /\ env = "commonjs" => call.effects = <<"require">>
    /\ (env = "browser" /\ call.inflightBefore = 0) => call.effects = <<"fetch">>

(***************************************************************************)
(* C9 (amended): while the table is unloaded, each query call with         *)
(* well-formed input calls require again in the synchronous environment;   *)
(* in the fetch environment the process issues at most one fetch, no query *)
(* call made once browserLoadPromise is set issues another, and a table    *)
(* still unloaded when that fetch has settled stays unloaded.              *)
(***************************************************************************)
C9_OnlySyncLoadIsRetried ==
  [][ /\ fetches' <= 1
      /\ (WellFormedCall' /\ ~call'.loadedBefore /\ env = "commonjs") =>
           call'.effects = <<"require">>
      /\ (call'.fn # "none" /\ call'.promiseBefore # "null") =>
           "fetch" \notin {call'.effects[i] : i \in 1..Len(call'.effects)}
      /\ (env = "browser" /\ started /\ inflight = 0 /\ ~Loaded) => ~Loaded' ]_vars

\* a query was made after the fetch failed, and the table is still unloaded
C9_Witness ==
  /\ env = "browser"
  /\ started
  /\ inflight = 0
  /\ ~Loaded
  /\ WellFormedCall
  /\ call.inflightBefore = 0
  /\ call.promiseBefore = "promise"
  /\ call.effects = <<>>

(***************************************************************************)
(* C10 (as stated): an installed table is a non-empty mapping whose        *)
(* entries all have en and zh fields that are non-empty strings.           *)
(***************************************************************************)
C10_LabelsAreNonEmptyStrings ==
  Loaded =>
    /\ Len(tagTable.props) > 0
    /\ \A i \in Positions :
         /\ EntryAt(i).en.type = "string" /\ EntryAt(i).en.chars # EmptyString
         /\ EntryAt(i).zh.type = "string" /\ EntryAt(i).zh.chars # EmptyString

(***************************************************************************)
(* C10 (amended): an installed table is a non-empty mapping whose entries  *)
(* are all plain objects with en and zh fields that are strings, possibly  *)
(* empty; while no table is installed both indexes are unloaded too.       *)
(***************************************************************************)
C10_LabelsAreStrings ==
  /\ Loaded =>
       /\ tagTable.kind = "object"
       /\ Len(tagTable.props) > 0
       /\ \A i \in Positions :
            /\ EntryAt(i).kind = "object"
            /\ EntryAt(i).en.type = "string"
            /\ EntryAt(i).zh.type = "string"
  /\ ~Loaded => aliasToCanonical.isNull /\ foldedCanonicalToCanonical.isNull
  /\ Loaded => ~aliasToCanonical.isNull /\ ~foldedCanonicalToCanonical.isNull

\* the fetched table has been installed although one of its zh labels is empty
C10_Witness ==
  /\ Loaded
  /\ env = "browser"
  /\ \E i \in Positions : EntryAt(i).zh = Str(EmptyString)

=============================================================================
